---- MODULE Spec2Model ----
(***************************************************************************)
(* API-key gate and daily quota ledger of the REST gateway.                *)
(*                                                                         *)
(* Store: class Database (database.js) over PostgreSQL.  Gates:            *)
(* validateApiKey (routes/api.js), authenticateApiKey and optionalApiKey   *)
(* (middleware/auth.js).  A request is a process; every await of a store   *)
(* round trip is a scheduling point, so each store statement is one step.  *)
(*                                                                         *)
(* The gates call Database.findApiKey and                                  *)
(* Database.checkAndUpdateApiKeyUsage.  The Database class defines no      *)
(* method of either name: its key lookup is findApiKeyByValue and its      *)
(* ledger operation is updateApiKeyUsage, and those are the operations the *)
(* gate steps below run.  Every store call may also throw (store           *)
(* unreachable, or the call itself raising), which the gate's catch block  *)
(* handles.                                                                *)
(***************************************************************************)
EXTENDS Integers, FiniteSets, Sequences, TLC

\* ---------------------------------------------------------------- bounds
NReq     == 2      \* concurrent requests
NKeys    == 4      \* rows of api_keys
MaxLimit == 2      \* largest daily_limit a key is created with
MaxDay   == 2      \* last calendar day the clock reaches
MaxRows  == 2      \* rows a table other than users and api_keys holds
MaxOps   == 2      \* store operations of other clients in one run
MaxSubjects == 2   \* users the account operations are exercised on

Reqs  == 1..NReq
Keys  == 1..NKeys
Users == 1..NKeys

\* Calendar days: 0 is the day before the first day of the run, 1 the first.
FirstDay  == 1
Yesterday == FirstDay - 1

\* ------------------------------------------------------------ JS values
\* Reading a property an object does not have yields undefined.
Undefined == -999
\* expires_at IS NULL
NullDate  == -1
\* A credential no api_keys row carries.
UnknownKey == NKeys + 1
\* A user id no users row carries.
UnknownUser == NKeys + 1
\* No credential in that slot of the request.
NoCred     == 0

Truthy(v) == v # Undefined /\ v # 0 /\ v # NoCred

Field(rec, f) == IF f \in DOMAIN rec THEN rec[f] ELSE Undefined

Max(a, b) == IF a >= b THEN a ELSE b
Min(a, b) == IF a <= b THEN a ELSE b

\* ------------------------------------------------------------- the store
VARIABLES
    today,        \* CURRENT_DATE of the database server
    users,        \* users table: id -> [is_active]
    api_keys,     \* api_keys table, committed rows: id -> row
    rowLock,      \* api_keys row lock: id -> request holding it, or 0
    gate,         \* the gate middleware mounted in front of the handlers
    carried,      \* credentials of a request that carries several at once:
                  \* [query, header, bearer]
    sessions,     \* sessions table: set of rows [id, user_id]
    password_reset_tokens,  \* set of rows [id, user_id]
    usage_logs,   \* usage_logs table: set of rows [id, user_id, api_key_id,
                  \* endpoint]; the endpoint of request r is r, of other
                  \* clients' calls 0
    jwtSecretSet, \* process.env.JWT_SECRET is set
    acct,         \* the account operation under way: a request to
                  \* DELETE /auth/account, or a call of Database.deleteUser
    ops,          \* store operations of other clients so far
    \* ------------------------------------------------------ per request
    pc,           \* position of the request in gate / ledger
    apiKey,       \* the credential the gate extracted
    apiKeyData,   \* row returned by the key lookup
    curDate,      \* CURRENT_DATE of the request's ledger transaction (0:
                  \* none begun, or rolled back)
    txRow,        \* the row as written by the request's open transaction
    usage,        \* rows[0] returned by updateApiKeyUsage
    res,          \* response sent by the gate: [status, next, limit,
                  \* remaining]; next: next() was called as well
    storeErr,     \* a store call of this request threw
    ledgerReturned, \* updateApiKeyUsage returned normally to the gate
    rolledOver,   \* the request's UPDATE found last_reset_date < CURRENT_DATE
    overlapped    \* the request's transaction began while another one on
                  \* the same key was open

vars == << today, users, api_keys, rowLock, gate, carried, sessions,
           password_reset_tokens, usage_logs, jwtSecretSet, acct, ops, pc,
           apiKey, apiKeyData, curDate, txRow, usage, res, storeErr,
           ledgerReturned, rolledOver, overlapped >>

\* What no step of a gate or of the ledger changes.
otherVars == << carried, sessions, password_reset_tokens, usage_logs,
               jwtSecretSet, acct, ops >>

\* What no account operation and no other client's store operation changes.
gateVars == << rowLock, gate, carried, jwtSecretSet, pc, apiKey, apiKeyData,
              curDate, txRow, usage, res, storeErr, ledgerReturned,
              rolledOver, overlapped >>

storeVars == << today, users, api_keys, rowLock, gate, otherVars >>

Modes == {"validateApiKey", "authenticateApiKey", "optionalApiKey"}

\* Where a request carries its credential: ?api_key=, x-api-key:, or
\* Authorization: Bearer.
Slots == {"query", "header", "bearer"}

\* Owner of a key (api_keys.user_id): every key has its own user.
Owner(k) == k

NoRow == [id |-> 0, user_id |-> 0, is_active |-> 0, daily_limit |-> 0,
          requests_today |-> 0, last_reset_date |-> 0, expires_at |-> NullDate]

NoUsage == [requests_today |-> Undefined, daily_limit |-> Undefined]

NoRes == [status |-> 0, next |-> FALSE, limit |-> Undefined,
          remaining |-> Undefined]

\* A request with no credential in any slot.
NoneCarried == [query |-> NoCred, header |-> NoCred, bearer |-> NoCred]

\* Key 1 is a usable key (kind 1).  The other keys are, in turn, of the
\* kinds the gates turn away: a deactivated key (2), a key that expired
\* yesterday (3), an active unexpired key whose user is deactivated (4).
Kind(k) == IF k = 1 THEN 1 ELSE 2 + (k % 3)

\* A newly inserted api_keys row: requests_today DEFAULT 0, last_reset_date
\* DEFAULT CURRENT_DATE; daily_limit, is_active and expires_at as given.
api_keys_row(k, limit, currentDate) ==
    [id |-> k, user_id |-> Owner(k),
     is_active |-> IF Kind(k) = 2 THEN 0 ELSE 1,
     daily_limit |-> limit,
     requests_today |-> 0,
     last_reset_date |-> currentDate,
     expires_at |-> IF Kind(k) = 3 THEN Yesterday ELSE NullDate]

\* What a slot of a request may hold.
Creds == {NoCred, UnknownKey} \cup Keys

\* A bearer token: the claim that carries the user id ("id" or "userId"),
\* that user id, the secret it is signed with ("env": process.env.JWT_SECRET,
\* "default": the fallback string of generateToken, "forged": any other) and
\* its day of expiry.
NoToken == [claim |-> "none", user |-> 0, key |-> "none", exp |-> 0]

\* via: "account" (DELETE /auth/account) or "deleteUser"; user: the userId
\* the deletion is for; step: the next statement of the transaction;
\* rowCount: of DELETE FROM users; status: the response sent; next:
\* authenticateToken called next(); failed: a store call of the operation
\* threw; fault: it threw for a reason outside the program (connection,
\* server); result: what deleteUser returned; sid: the session id a logout
\* request names (0: none); prior: the token of the logout request answered
\* before this request; revoked: that logout deleted a session row.
NoAcct == [pc |-> "idle", via |-> "none", token |-> NoToken, confirm |-> FALSE,
           user |-> 0, step |-> 0, rowCount |-> 0, status |-> 0,
           next |-> FALSE, failed |-> FALSE, fault |-> FALSE,
           result |-> "none", sid |-> 0, prior |-> NoToken,
           revoked |-> FALSE]

\* own[k]: the user the row of key k is created for.
InitOwned(c, secretSet, own) ==
    /\ today = FirstDay
    /\ users = [u \in Users |-> [is_active |-> IF Kind(u) = 4 THEN 0 ELSE 1]]
    /\ \E limit \in 1..MaxLimit :
         api_keys = [k \in Keys |->
                        [api_keys_row(k, limit, FirstDay)
                            EXCEPT !.user_id = own[k]]]
    /\ rowLock = [k \in Keys |-> 0]
    /\ gate \in Modes
    /\ carried = c
    /\ sessions = {}
    /\ password_reset_tokens = {}
    /\ usage_logs = {}
    /\ jwtSecretSet = secretSet
    /\ acct = NoAcct
    /\ ops = 0
    /\ pc = [r \in Reqs |-> "idle"]
    /\ apiKey = [r \in Reqs |-> NoCred]
    /\ apiKeyData = [r \in Reqs |-> NoRow]
    /\ curDate = [r \in Reqs |-> 0]
    /\ txRow = [r \in Reqs |-> NoRow]
    /\ usage = [r \in Reqs |-> NoUsage]
    /\ res = [r \in Reqs |-> NoRes]
    /\ storeErr = [r \in Reqs |-> FALSE]
    /\ ledgerReturned = [r \in Reqs |-> FALSE]
    /\ rolledOver = [r \in Reqs |-> FALSE]
    /\ overlapped = [r \in Reqs |-> FALSE]

InitConfigured(c, secretSet) ==
    InitOwned(c, secretSet, [k \in Keys |-> Owner(k)])

InitCarrying(c) == InitConfigured(c, TRUE)

Init == InitCarrying(NoneCarried)

\* ------------------------------------------------------------ the clock
Tick ==
    /\ today < MaxDay
    /\ today' = today + 1
    /\ UNCHANGED << users, api_keys, rowLock, gate, otherVars, pc, apiKey,
                    apiKeyData, curDate, txRow, usage, res, storeErr,
                    ledgerReturned, rolledOver, overlapped >>

\* ------------------------------------------------ Database (database.js)
\* SELECT ak.* FROM api_keys ak JOIN users u ON ak.user_id = u.id
\*  WHERE ak.key_value = $1 AND ak.is_active = 1 AND u.is_active = 1
\* returns rows[0]: the row, or undefined (NoRow) when no row matches.  Key k
\* carries key_value k.
findApiKeyByValue(keyValue) ==
    IF /\ keyValue \in DOMAIN api_keys
       /\ api_keys[keyValue].is_active = 1
       /\ api_keys[keyValue].user_id \in DOMAIN users
       /\ users[api_keys[keyValue].user_id].is_active = 1
    THEN api_keys[keyValue]
    ELSE NoRow

\* UPDATE api_keys SET requests_today = CASE WHEN last_reset_date <
\* CURRENT_DATE THEN 1 ELSE requests_today + 1 END, last_reset_date = CASE
\* WHEN last_reset_date < CURRENT_DATE THEN CURRENT_DATE ELSE last_reset_date
\* END WHERE id = $1
UpdatedRow_ResetsOnSameDay(row, currentDate) ==
    [row EXCEPT
        !.requests_today  = IF row.last_reset_date <= currentDate
                            THEN 1 ELSE row.requests_today + 1,
        !.last_reset_date = IF row.last_reset_date <= currentDate
                            THEN currentDate ELSE row.last_reset_date]

UpdatedRow_Decrements(row, currentDate) ==
    [row EXCEPT
        !.requests_today  = IF row.last_reset_date < currentDate
                            THEN 1 ELSE row.requests_today - 1,
        !.last_reset_date = IF row.last_reset_date < currentDate
                            THEN currentDate ELSE row.last_reset_date]

UpdatedRow(row, currentDate) ==
    [row EXCEPT
        !.requests_today  = IF row.last_reset_date < currentDate
                            THEN 1 ELSE row.requests_today + 1,
        !.last_reset_date = IF row.last_reset_date < currentDate
                            THEN currentDate ELSE row.last_reset_date]

\* The UPDATE runs between BEGIN and COMMIT: it takes the row's lock and
\* keeps it until the transaction ends, so it waits while another open
\* transaction has written the row.
RowLockFree_NoTransaction(k, r) == TRUE

RowLockFree(k, r) == rowLock[k] \in {0, r}

\* COMMIT of UPDATE api_keys SET ... WHERE id = $1: the one row with that id
\* is as the transaction wrote it.
WrittenRows_PerUser(rows, id, written) ==
    [k \in DOMAIN rows |->
        IF rows[k].user_id = rows[id].user_id
        THEN [rows[k] EXCEPT !.requests_today = written.requests_today,
                             !.last_reset_date = written.last_reset_date]
        ELSE rows[k]]

WrittenRows(rows, id, written) == [rows EXCEPT ![id] = written]

\* ROLLBACK: the row is again as last committed; what the transaction wrote
\* is discarded.
RolledBack_KeepsWrite(committed, written) ==
    IF written = NoRow THEN committed ELSE written

RolledBack(committed, written) == committed

\* SELECT requests_today, daily_limit FROM api_keys WHERE id = $1
SelectedUsage(row) ==
    [requests_today |-> row.requests_today, daily_limit |-> row.daily_limit]

\* ------------------------------------------------------------- the gates
\* validateApiKey: req.query.api_key || req.headers['x-api-key'] ||
\*                 req.headers['authorization']?.replace('Bearer ', '')
\* authenticateApiKey, optionalApiKey:
\*                 req.headers['x-api-key'] || req.query.api_key
ExtractKey(m, query, header, bearer) ==
    IF m = "validateApiKey"
    THEN IF Truthy(query) THEN query
         ELSE IF Truthy(header) THEN header ELSE bearer
    ELSE IF Truthy(header) THEN header ELSE query

\* return res.status(st).json({...}): the response is sent and the
\* middleware returns without calling next().
Reject_FallsThrough(st, lim, rem) ==
    [status |-> st, next |-> TRUE, limit |-> lim, remaining |-> rem]

Reject(st, lim, rem) ==
    [status |-> st, next |-> FALSE, limit |-> lim, remaining |-> rem]

\* next(): the gate passes the request on; the response is the handler's.
Proceed ==
    [status |-> 0, next |-> TRUE, limit |-> Undefined, remaining |-> Undefined]

\* if (!apiKey) return res.status(401); optionalApiKey: if (apiKey) {...}
\* next()
OnMissingKey(m) ==
    IF m = "optionalApiKey" THEN Proceed ELSE Reject(401, Undefined, Undefined)

\* expires_at && new Date(expires_at) < new Date()
Expired(row, now) == row.expires_at # NullDate /\ row.expires_at < now

\* What the gate does once the lookup has returned keyData; NoRes when it
\* answers nothing and goes on to the ledger.  optionalApiKey tests only
\* if (keyData).
AfterLookup(m, keyData, now) ==
    IF m = "optionalApiKey"
    THEN IF keyData = NoRow THEN Proceed ELSE NoRes
    ELSE IF keyData = NoRow THEN Reject(401, Undefined, Undefined)
    ELSE IF m = "validateApiKey" /\ keyData.is_active = 0
         THEN Reject(403, Undefined, Undefined)
    ELSE IF Expired(keyData, now)
         THEN Reject(IF m = "validateApiKey" THEN 403 ELSE 401,
                     Undefined, Undefined)
    ELSE NoRes

\* catch (error) { return res.status(500).json(...) }
\* optionalApiKey: catch (error) { next() }
GateOnError_FailOpen(m) ==
    [status |-> 0, next |-> TRUE, limit |-> Undefined, remaining |-> Undefined]

GateOnError(m) ==
    IF m = "optionalApiKey" THEN Proceed ELSE Reject(500, Undefined, Undefined)

\* The value the gate tests: usage.allowed.
Allowed(u) == Truthy(Field(u, "allowed"))

\* if (!usage.allowed) return res.status(429).json(...)
\* validateApiKey: limit: usageCheck.limit, remaining: 0
\* authenticateApiKey: limit: usage.limit, remaining: usage.remaining
\* optionalApiKey: neither
GateOnDenied(m, u) ==
    IF m = "optionalApiKey" THEN Reject(429, Undefined, Undefined)
    ELSE Reject(429, Field(u, "limit"),
                IF m = "validateApiKey" THEN 0 ELSE Field(u, "remaining"))

\* The gate sends reply to request r and returns.
Respond(r, reply) ==
    /\ res' = [res EXCEPT ![r] = reply]
    /\ pc' = [pc EXCEPT ![r] = "done"]

\* A request arrives (requests are numbered in order of arrival) carrying
\* the credentials c; the gate extracts its key.
ArriveWith(r, c) ==
    /\ pc[r] = "idle"
    /\ \A o \in Reqs : o < r => pc[o] # "idle"
    /\ LET key == ExtractKey(gate, c.query, c.header, c.bearer)
       IN  /\ apiKey' = [apiKey EXCEPT ![r] = key]
           /\ IF ~Truthy(key)
              THEN Respond(r, OnMissingKey(gate))
              ELSE /\ pc' = [pc EXCEPT ![r] = "lookup"]
                   /\ res' = res
    /\ UNCHANGED << storeVars, apiKeyData, curDate, txRow, usage, storeErr,
                    ledgerReturned, rolledOver, overlapped >>

\* A request with a credential in one of the three slots.
Arrive(r) ==
    \E slot \in Slots, cred \in Creds :
        ArriveWith(r, [query  |-> IF slot = "query" THEN cred ELSE NoCred,
                       header |-> IF slot = "header" THEN cred ELSE NoCred,
                       bearer |-> IF slot = "bearer" THEN cred ELSE NoCred])

\* A request with the credentials of carried in its slots.
ArriveCarrying(r) == ArriveWith(r, carried)

\* await Database.findApiKey(apiKey), then the active / expiry checks.
Lookup(r) ==
    /\ pc[r] = "lookup"
    /\ apiKeyData' = [apiKeyData EXCEPT ![r] = findApiKeyByValue(apiKey[r])]
    /\ LET reply == AfterLookup(gate, findApiKeyByValue(apiKey[r]), today)
       IN  IF reply # NoRes
           THEN Respond(r, reply)
           ELSE /\ pc' = [pc EXCEPT ![r] = "ledger"]
                /\ res' = res
    /\ UNCHANGED << storeVars, apiKey, curDate, txRow, usage, storeErr,
                    ledgerReturned, rolledOver, overlapped >>

\* The lookup throws; the catch block of the gate answers.
LookupFails(r) ==
    /\ pc[r] = "lookup"
    /\ storeErr' = [storeErr EXCEPT ![r] = TRUE]
    /\ Respond(r, GateOnError(gate))
    /\ UNCHANGED << storeVars, apiKey, apiKeyData, curDate, txRow, usage,
                    ledgerReturned, rolledOver, overlapped >>

\* ------------------------------------------------- updateApiKeyUsage
InLedger(r) == pc[r] \in {"update", "select", "commit", "rollback"}

\* const client = await this.pool.connect(); await client.query('BEGIN')
Begin(r) ==
    /\ pc[r] = "ledger"
    /\ curDate' = [curDate EXCEPT ![r] = today]
    /\ overlapped' = [overlapped EXCEPT ![r] =
           \E o \in Reqs \ {r} : /\ InLedger(o)
                                 /\ apiKeyData[o].id = apiKeyData[r].id]
    /\ pc' = [pc EXCEPT ![r] = "update"]
    /\ UNCHANGED << storeVars, apiKey, apiKeyData, txRow, usage, res,
                    storeErr, ledgerReturned, rolledOver >>

\* pool.connect() rejects: thrown before the try block, straight to the
\* catch block of the gate.
BeginFails(r) ==
    /\ pc[r] = "ledger"
    /\ storeErr' = [storeErr EXCEPT ![r] = TRUE]
    /\ Respond(r, GateOnError(gate))
    /\ UNCHANGED << storeVars, apiKey, apiKeyData, curDate, txRow, usage,
                    ledgerReturned, rolledOver, overlapped >>

Update(r) ==
    /\ pc[r] = "update"
    /\ RowLockFree(apiKeyData[r].id, r)
    /\ rowLock' = [rowLock EXCEPT ![apiKeyData[r].id] = r]
    /\ txRow' = [txRow EXCEPT ![r] =
                    UpdatedRow(api_keys[apiKeyData[r].id], curDate[r])]
    /\ rolledOver' = [rolledOver EXCEPT ![r] =
                    api_keys[apiKeyData[r].id].last_reset_date < curDate[r]]
    /\ pc' = [pc EXCEPT ![r] = "select"]
    /\ UNCHANGED << today, users, api_keys, gate, otherVars, apiKey,
                    apiKeyData, curDate, usage, res, storeErr, ledgerReturned,
                    overlapped >>

Select(r) ==
    /\ pc[r] = "select"
    /\ usage' = [usage EXCEPT ![r] = SelectedUsage(txRow[r])]
    /\ pc' = [pc EXCEPT ![r] = "commit"]
    /\ UNCHANGED << storeVars, apiKey, apiKeyData, curDate, txRow, res,
                    storeErr, ledgerReturned, rolledOver, overlapped >>

\* COMMIT; return result.rows[0]; the gate then tests usage.allowed.  The
\* statements the gate runs after an allowed call (attach, logUsage or
\* findUserById, next) start at position "allowed".
Commit(r) ==
    /\ pc[r] = "commit"
    /\ api_keys' = WrittenRows(api_keys, apiKeyData[r].id, txRow[r])
    /\ rowLock' = [rowLock EXCEPT ![apiKeyData[r].id] = 0]
    /\ txRow' = [txRow EXCEPT ![r] = NoRow]
    /\ ledgerReturned' = [ledgerReturned EXCEPT ![r] = TRUE]
    /\ IF ~Allowed(usage[r])
       THEN Respond(r, GateOnDenied(gate, usage[r]))
       ELSE /\ pc' = [pc EXCEPT ![r] = "allowed"]
            /\ res' = res
    /\ UNCHANGED << today, users, gate, otherVars, apiKey, apiKeyData,
                    curDate, usage, storeErr, rolledOver, overlapped >>

\* The UPDATE, the SELECT or the COMMIT throws: control enters the catch
\* block of updateApiKeyUsage.
StatementFails(r) ==
    /\ pc[r] \in {"update", "select", "commit"}
    /\ storeErr' = [storeErr EXCEPT ![r] = TRUE]
    /\ pc' = [pc EXCEPT ![r] = "rollback"]
    /\ UNCHANGED << storeVars, apiKey, apiKeyData, curDate, txRow, usage,
                    res, ledgerReturned, rolledOver, overlapped >>

\* ROLLBACK; throw error; finally client.release().  The catch block of the
\* gate answers.
Rollback(r) ==
    /\ pc[r] = "rollback"
    /\ api_keys' = [api_keys EXCEPT ![apiKeyData[r].id] =
                        RolledBack(@, txRow[r])]
    /\ rowLock' = [k \in Keys |-> IF rowLock[k] = r THEN 0 ELSE rowLock[k]]
    /\ txRow' = [txRow EXCEPT ![r] = NoRow]
    /\ curDate' = [curDate EXCEPT ![r] = 0]
    /\ Respond(r, GateOnError(gate))
    /\ UNCHANGED << today, users, gate, otherVars, apiKey,
                    apiKeyData, usage, storeErr, ledgerReturned, rolledOver,
                    overlapped >>

Next ==
    \/ Tick
    \/ \E r \in Reqs :
         \/ Arrive(r)
         \/ Lookup(r)
         \/ LookupFails(r)
         \/ Begin(r)
         \/ BeginFails(r)
         \/ Update(r)
         \/ Select(r)
         \/ Commit(r)
         \/ StatementFails(r)
         \/ Rollback(r)

Spec == Init /\ [][Next]_vars

\* The gates in front of requests that carry up to three credentials at once.
InitPrecedence ==
    \E q \in Creds, h \in Creds, b \in Creds :
        InitCarrying([query |-> q, header |-> h, bearer |-> b])

NextPrecedence ==
    \/ Tick
    \/ \E r \in Reqs :
         \/ ArriveCarrying(r)
         \/ Lookup(r)
         \/ LookupFails(r)
         \/ Begin(r)
         \/ BeginFails(r)
         \/ Update(r)
         \/ Select(r)
         \/ Commit(r)
         \/ StatementFails(r)
         \/ Rollback(r)

SpecPrecedence == InitPrecedence /\ [][NextPrecedence]_vars

\* The ledger behind one gate, validateApiKey.
InitLedger == Init /\ gate = "validateApiKey"

SpecLedger == InitLedger /\ [][Next]_vars

\* ----------------------------------------------------- the other tables
\* The tables initializeTables creates.
Schema == {"users", "api_keys", "sessions", "password_reset_tokens",
           "usage_logs"}

RowIds == 1..MaxRows

\* The id of a new row of table tbl; 0 when the table is full.
NewId(tbl) ==
    IF \E i \in RowIds : \A x \in tbl : x.id # i
    THEN CHOOSE i \in RowIds :
            /\ \A x \in tbl : x.id # i
            /\ \A j \in 1..(i - 1) : \E x \in tbl : x.id = j
    ELSE 0

\* The committed tables, as one value.
DB == [users |-> users, api_keys |-> api_keys, sessions |-> sessions,
       password_reset_tokens |-> password_reset_tokens,
       usage_logs |-> usage_logs]

SetDB(db) ==
    /\ users' = db.users
    /\ api_keys' = db.api_keys
    /\ sessions' = db.sessions
    /\ password_reset_tokens' = db.password_reset_tokens
    /\ usage_logs' = db.usage_logs

KeysOf(db, u) == {k \in DOMAIN db.api_keys : db.api_keys[k].user_id = u}

\* DELETE FROM api_keys WHERE id IN ks; usage_logs.api_key_id REFERENCES
\* api_keys(id) ON DELETE CASCADE.
DeleteKeys(db, ks) ==
    [db EXCEPT
        !.api_keys = [k \in DOMAIN db.api_keys \ ks |-> db.api_keys[k]],
        !.usage_logs = {x \in db.usage_logs : x.api_key_id \notin ks}]

\* DELETE FROM tbl WHERE user_id = u (users: WHERE id = u), with the
\* ON DELETE CASCADE of the foreign keys that reference the deleted rows.
DeleteFrom(db, tbl, u) ==
    IF tbl = "sessions"
    THEN [db EXCEPT !.sessions = {x \in db.sessions : x.user_id # u}]
    ELSE IF tbl = "password_reset_tokens"
    THEN [db EXCEPT !.password_reset_tokens =
                        {x \in db.password_reset_tokens : x.user_id # u}]
    ELSE IF tbl = "usage_logs"
    THEN [db EXCEPT !.usage_logs = {x \in db.usage_logs : x.user_id # u}]
    ELSE IF tbl = "api_keys"
    THEN DeleteKeys(db, KeysOf(db, u))
    ELSE IF tbl = "users"
    THEN LET d == DeleteKeys(db, KeysOf(db, u))
         IN  [d EXCEPT
                !.users = [v \in DOMAIN db.users \ {u} |-> db.users[v]],
                !.sessions = {x \in db.sessions : x.user_id # u},
                !.password_reset_tokens =
                    {x \in db.password_reset_tokens : x.user_id # u},
                !.usage_logs = {x \in d.usage_logs : x.user_id # u}]
    ELSE db

RECURSIVE ApplyDeletes(_, _, _)
\* The DELETE statements stmts (a sequence of table names), in order.
ApplyDeletes(db, stmts, u) ==
    IF stmts = << >> THEN db
    ELSE ApplyDeletes(DeleteFrom(db, Head(stmts), u), Tail(stmts), u)

\* COMMIT makes the statements of the transaction visible, all at once.
OnCommit(db, stmts, u) == ApplyDeletes(db, stmts, u)

\* ROLLBACK discards them.
OnRollback_KeepsDeletes(db, stmts, u) == ApplyDeletes(db, stmts, u)

OnRollback(db, stmts, u) == db

\* deleteUser: sessions, password_reset_tokens, usage_logs, api_keys, users.
\* DELETE /auth/account: sessions, api_keys, usage_logs, transactions, users.
DeletePlan(via) ==
    IF via = "deleteUser"
    THEN << "sessions", "password_reset_tokens", "usage_logs", "api_keys",
            "users" >>
    ELSE << "sessions", "api_keys", "usage_logs", "transactions", "users" >>

\* The statements the open transaction has executed.
Executed == SubSeq(DeletePlan(acct.via), 1, acct.step - 1)

InTx == acct.pc \in {"stmt", "commit", "rollback"}

\* Rows the open transaction has deleted and not yet committed stay locked:
\* an INSERT that references one of them waits for the transaction to end.
UserLocked(u) ==
    InTx /\ acct.user = u /\ \E i \in DOMAIN Executed : Executed[i] = "users"

KeyLocked(k) ==
    /\ InTx /\ k \in DOMAIN api_keys /\ api_keys[k].user_id = acct.user
    /\ \E i \in DOMAIN Executed : Executed[i] \in {"api_keys", "users"}

\* ------------------------------------- store operations of other clients
\* INSERT INTO usage_logs (user_id, api_key_id, ...): both columns are NOT
\* NULL and reference users(id) and api_keys(id); the call throws, and no row
\* is written, when a value is missing or references no row.
InsertUsage(rows, usageData) ==
    LET user_id    == Field(usageData, "user_id")
        api_key_id == Field(usageData, "api_key_id")
        endpoint   == Field(usageData, "endpoint")
    IN  IF /\ user_id \in DOMAIN users /\ api_key_id \in DOMAIN api_keys
           /\ endpoint # Undefined
        THEN [threw |-> FALSE,
              rows  |-> rows \cup {[id |-> NewId(rows), user_id |-> user_id,
                                    api_key_id |-> api_key_id,
                                    endpoint |-> endpoint]}]
        ELSE [threw |-> TRUE, rows |-> rows]

\* A call of logUsage by another client, with the object the method
\* destructures.
logUsage(usageData) ==
    LET user_id    == Field(usageData, "user_id")
        api_key_id == Field(usageData, "api_key_id")
    IN  /\ ops < MaxOps
        /\ NewId(usage_logs) # 0
        /\ ~UserLocked(user_id) /\ ~KeyLocked(api_key_id)
        /\ usage_logs' = InsertUsage(usage_logs, usageData).rows
        /\ ops' = ops + 1
        /\ UNCHANGED << today, users, api_keys, sessions,
                        password_reset_tokens, acct, gateVars >>

\* INSERT INTO sessions (id, user_id, ...)
createSession(sessionData) ==
    /\ ops < MaxOps
    /\ NewId(sessions) # 0
    /\ ~UserLocked(sessionData.user_id)
    /\ sessions' =
         IF sessionData.user_id \in DOMAIN users
         THEN sessions \cup {[id |-> NewId(sessions),
                              user_id |-> sessionData.user_id,
                              created_at |-> today]}
         ELSE sessions
    /\ ops' = ops + 1
    /\ UNCHANGED << today, users, api_keys, password_reset_tokens, usage_logs,
                    acct, gateVars >>

\* INSERT INTO password_reset_tokens (user_id, token, expires_at)
saveResetToken(userId) ==
    /\ ops < MaxOps
    /\ NewId(password_reset_tokens) # 0
    /\ ~UserLocked(userId)
    /\ password_reset_tokens' =
         IF userId \in DOMAIN users
         THEN password_reset_tokens
                \cup {[id |-> NewId(password_reset_tokens), user_id |-> userId]}
         ELSE password_reset_tokens
    /\ ops' = ops + 1
    /\ UNCHANGED << today, users, api_keys, sessions, usage_logs, acct,
                    gateVars >>

\* DELETE FROM api_keys WHERE id = $1 AND user_id = $2
deleteApiKey(apiKeyId, userId) ==
    /\ ops < MaxOps
    /\ apiKeyId \in DOMAIN api_keys
    /\ rowLock[apiKeyId] = 0 /\ ~KeyLocked(apiKeyId)
    /\ SetDB(IF api_keys[apiKeyId].user_id = userId
             THEN DeleteKeys(DB, {apiKeyId})
             ELSE DB)
    /\ ops' = ops + 1
    /\ UNCHANGED << today, acct, gateVars >>

\* UPDATE users SET is_active = ... WHERE id = $n
updateUser(userId, updateData) ==
    /\ ops < MaxOps
    /\ userId \in DOMAIN users
    /\ ~UserLocked(userId)
    /\ users[userId].is_active # updateData.is_active
    /\ users' = [users EXCEPT ![userId].is_active = updateData.is_active]
    /\ ops' = ops + 1
    /\ UNCHANGED << today, api_keys, sessions, password_reset_tokens,
                    usage_logs, acct, gateVars >>

\* ----------------------------------------------------- bearer tokens
\* expiresIn: process.env.JWT_EXPIRES_IN || '30d'
TokenDays == 30

\* jwt.sign({id, email, plan}, process.env.JWT_SECRET || '<default>',
\*          {expiresIn})
generateToken(user, secretSet, now) ==
    [claim |-> "id", user |-> user,
     key |-> IF secretSet THEN "env" ELSE "default",
     exp |-> now + TokenDays]

\* jwt.verify(token, process.env.JWT_SECRET) returns the payload; it throws
\* without a secret, on another signature and on an expired token.
Verified(token, secretSet, now) ==
    secretSet /\ token.key = "env" /\ now <= token.exp

\* decoded.userId
DecodedUserId(token) ==
    IF token.claim = "userId" THEN token.user ELSE Undefined

\* SELECT * FROM users WHERE id = $1; rows[0]
NoUser == [id |-> 0, is_active |-> 0]

findUserById_NeedsSession(id) ==
    IF id \in DOMAIN users /\ \E x \in sessions : x.user_id = id
    THEN [id |-> id, is_active |-> users[id].is_active]
    ELSE NoUser

findUserById(id) ==
    IF id \in DOMAIN users
    THEN [id |-> id, is_active |-> users[id].is_active]
    ELSE NoUser

\* The users the account operations are exercised on: user 1 is active and
\* user 2 is not (Kind), until updateUser changes it.
Subjects == 1..MaxSubjects

\* The tokens a request may carry: none, one that generateToken issued, or
\* one with a userId claim: signed with the server's secret or not, expired
\* or not.
Tokens ==
    {NoToken}
    \cup {generateToken(u, jwtSecretSet, today) : u \in Subjects \cap DOMAIN users}
    \cup {[claim |-> "userId", user |-> u, key |-> "env", exp |-> e] :
            u \in Subjects \cup {UnknownUser},
            e \in {Yesterday, today + TokenDays}}
    \cup {[claim |-> "userId", user |-> u, key |-> "forged",
           exp |-> today + TokenDays] : u \in Subjects}

\* ------------------------------------------------ DELETE /auth/account
AcctEnd(st, nx, res0) ==
    acct' = [acct EXCEPT !.pc = "done", !.status = st, !.next = nx,
                         !.result = res0]

\* authenticateToken up to its store call.
RequestAccount(token, confirm) ==
    /\ acct.pc = "idle"
    /\ IF token = NoToken
       THEN acct' = [acct EXCEPT !.via = "account", !.token = token,
                                 !.confirm = confirm,
                                 !.pc = "done", !.status = 401]
       ELSE IF ~Verified(token, jwtSecretSet, today)
       THEN acct' = [acct EXCEPT !.via = "account", !.token = token,
                                 !.confirm = confirm,
                                 !.pc = "done", !.status = 403]
       ELSE acct' = [acct EXCEPT !.via = "account", !.token = token,
                                 !.confirm = confirm, !.pc = "findUser"]
    /\ UNCHANGED << today, users, api_keys, sessions, password_reset_tokens,
                    usage_logs, ops, gateVars >>

\* const user = await database.findUserById(decoded.userId); then next() and
\* the route handler up to its first store call.
AuthFindUser ==
    /\ acct.pc = "findUser"
    /\ LET user == findUserById(DecodedUserId(acct.token))
       IN  IF user = NoUser \/ user.is_active = 0
           THEN AcctEnd(401, FALSE, "none")
           ELSE IF acct.via = "logout"
           THEN acct' = [acct EXCEPT !.next = TRUE, !.user = user.id,
                                     !.pc = "logout"]
           ELSE IF ~acct.confirm
           THEN AcctEnd(400, TRUE, "none")
           ELSE acct' = [acct EXCEPT !.next = TRUE, !.user = user.id,
                                     !.pc = "begin"]
    /\ UNCHANGED << today, users, api_keys, sessions, password_reset_tokens,
                    usage_logs, ops, gateVars >>

\* findUserById throws: the catch block of authenticateToken answers.
AuthFindUserFails ==
    /\ acct.pc = "findUser"
    /\ acct' = [acct EXCEPT !.pc = "done", !.status = 403, !.failed = TRUE,
                            !.fault = TRUE]
    /\ UNCHANGED << today, users, api_keys, sessions, password_reset_tokens,
                    usage_logs, ops, gateVars >>

\* ---------------------------------------------------- POST /auth/logout
\* cleanupExpiredSessions: created_at < CURRENT_TIMESTAMP - INTERVAL '7 days'
SessionDays == 7

\* authenticateToken up to its store call, in front of the logout handler.
RequestLogout(token, sessionId) ==
    /\ acct.pc = "idle"
    /\ IF token = NoToken
       THEN acct' = [acct EXCEPT !.via = "logout", !.token = token,
                                 !.sid = sessionId,
                                 !.pc = "done", !.status = 401]
       ELSE IF ~Verified(token, jwtSecretSet, today)
       THEN acct' = [acct EXCEPT !.via = "logout", !.token = token,
                                 !.sid = sessionId,
                                 !.pc = "done", !.status = 403]
       ELSE acct' = [acct EXCEPT !.via = "logout", !.token = token,
                                 !.sid = sessionId, !.pc = "findUser"]
    /\ UNCHANGED << today, users, api_keys, sessions, password_reset_tokens,
                    usage_logs, ops, gateVars >>

\* if (sessionId) await database.deleteSession(sessionId);
\* await database.cleanupExpiredSessions(); res.status(200)
Logout ==
    /\ acct.pc = "logout"
    /\ LET named == IF acct.sid # 0
                    THEN {x \in sessions : x.id = acct.sid} ELSE {}
           old   == {x \in sessions : x.created_at < today - SessionDays}
       IN  /\ sessions' = (sessions \ named) \ old
           /\ acct' = [acct EXCEPT !.pc = "done", !.status = 200,
                           !.rowCount = Cardinality(named)]
    /\ UNCHANGED << today, users, api_keys, password_reset_tokens, usage_logs,
                    ops, gateVars >>

\* deleteSession or cleanupExpiredSessions throws: the catch block answers.
LogoutFails ==
    /\ acct.pc = "logout"
    /\ acct' = [acct EXCEPT !.pc = "done", !.status = 500, !.failed = TRUE,
                            !.fault = TRUE]
    /\ UNCHANGED << today, users, api_keys, sessions, password_reset_tokens,
                    usage_logs, ops, gateVars >>

\* The client that has logged out sends its next request.
AfterLogout ==
    /\ acct.pc = "done" /\ acct.via = "logout" /\ acct.status = 200
    /\ acct' = [NoAcct EXCEPT !.prior = acct.token,
                              !.revoked = acct.rowCount > 0]
    /\ UNCHANGED << today, users, api_keys, sessions, password_reset_tokens,
                    usage_logs, ops, gateVars >>

\* ------------------------------------------------------------ deleteUser
CallDeleteUser(userId) ==
    /\ acct.pc = "idle"
    /\ acct' = [acct EXCEPT !.via = "deleteUser", !.user = userId,
                            !.pc = "begin"]
    /\ UNCHANGED << today, users, api_keys, sessions, password_reset_tokens,
                    usage_logs, ops, gateVars >>

\* ------------------------------ the transaction of either deletion
\* const client = await pool.connect(); await client.query('BEGIN')
TxBegin ==
    /\ acct.pc = "begin"
    /\ acct' = [acct EXCEPT !.pc = "stmt", !.step = 1]
    /\ UNCHANGED << today, users, api_keys, sessions, password_reset_tokens,
                    usage_logs, ops, gateVars >>

\* pool.connect() rejects, before the try block: deleteUser throws; the
\* outer catch block of the route answers 500.
TxBeginFails ==
    /\ acct.pc = "begin"
    /\ acct' = [acct EXCEPT !.pc = "done", !.failed = TRUE, !.fault = TRUE,
                    !.status = IF acct.via = "account" THEN 500 ELSE 0,
                    !.result = IF acct.via = "account" THEN "none" ELSE "threw"]
    /\ UNCHANGED << today, users, api_keys, sessions, password_reset_tokens,
                    usage_logs, ops, gateVars >>

\* The next DELETE of the transaction.  A statement on a table the database
\* does not have fails.  DELETE FROM api_keys waits for the row locks of the
\* keys it deletes.
TxStatement ==
    /\ acct.pc = "stmt"
    /\ LET plan == DeletePlan(acct.via)
           tbl  == plan[acct.step]
       IN  /\ tbl \in {"api_keys", "users"} =>
                  \A k \in KeysOf(DB, acct.user) : rowLock[k] = 0
           /\ IF tbl \notin Schema
              THEN acct' = [acct EXCEPT !.pc = "rollback", !.failed = TRUE]
              ELSE acct' = [acct EXCEPT
                      !.step = acct.step + 1,
                      !.rowCount = IF tbl = "users"
                                   THEN (IF acct.user \in DOMAIN users
                                         THEN 1 ELSE 0)
                                   ELSE acct.rowCount,
                      !.pc = IF acct.step = Len(plan) THEN "commit"
                             ELSE "stmt"]
    /\ UNCHANGED << today, users, api_keys, sessions, password_reset_tokens,
                    usage_logs, ops, gateVars >>

\* A statement, or the COMMIT, throws.
TxStatementFails ==
    /\ acct.pc \in {"stmt", "commit"}
    /\ acct' = [acct EXCEPT !.pc = "rollback", !.failed = TRUE,
                            !.fault = TRUE]
    /\ UNCHANGED << today, users, api_keys, sessions, password_reset_tokens,
                    usage_logs, ops, gateVars >>

\* COMMIT.  deleteUser: return result.rowCount > 0.  The route: 404 when
\* result.rows.length === 0, else 200.
TxCommit ==
    /\ acct.pc = "commit"
    /\ SetDB(OnCommit(DB, Executed, acct.user))
    /\ IF acct.via = "account"
       THEN AcctEnd(IF acct.rowCount = 0 THEN 404 ELSE 200, TRUE, "none")
       ELSE AcctEnd(0, FALSE, IF acct.rowCount > 0 THEN "true" ELSE "false")
    /\ UNCHANGED << today, ops, gateVars >>

\* ROLLBACK; throw error; finally client.release().  deleteUser throws; the
\* outer catch block of the route answers 500.
TxRollback ==
    /\ acct.pc = "rollback"
    /\ SetDB(OnRollback(DB, Executed, acct.user))
    /\ IF acct.via = "account"
       THEN AcctEnd(500, TRUE, "none")
       ELSE AcctEnd(0, FALSE, "threw")
    /\ UNCHANGED << today, ops, gateVars >>

TickAccount ==
    /\ today < MaxDay
    /\ today' = today + 1
    /\ UNCHANGED << users, api_keys, sessions, password_reset_tokens,
                    usage_logs, acct, ops, gateVars >>

\* The gates stay idle here: one mode and one limit stand for all.
InitAccount ==
    /\ \E secretSet \in BOOLEAN : InitConfigured(NoneCarried, secretSet)
    /\ gate = "validateApiKey"
    /\ \A k \in Keys : api_keys[k].daily_limit = 1

NextAccount ==
    \/ TickAccount
    \/ \E u \in Subjects :
         logUsage([user_id |-> u, api_key_id |-> u, endpoint |-> 0])
    \/ \E u \in Subjects : createSession([user_id |-> u])
    \/ \E u \in Subjects : saveResetToken(u)
    \/ \E u \in Subjects : deleteApiKey(u, Owner(u))
    \/ \E u \in Subjects, a \in {0, 1} : updateUser(u, [is_active |-> a])
    \/ \E t \in Tokens, confirm \in BOOLEAN : RequestAccount(t, confirm)
    \/ AuthFindUser
    \/ AuthFindUserFails
    \/ \E u \in Subjects : CallDeleteUser(u)
    \/ TxBegin
    \/ TxBeginFails
    \/ TxStatement
    \/ TxStatementFails
    \/ TxCommit
    \/ TxRollback

SpecAccount == InitAccount /\ [][NextAccount]_vars

\* Logging in (a session row is written), logging out, and the request the
\* client sends next with the same token.
NextSession ==
    \/ TickAccount
    \/ \E u \in Subjects : createSession([user_id |-> u])
    \/ \E u \in Subjects, a \in {0, 1} : updateUser(u, [is_active |-> a])
    \/ \E t \in Tokens, sessionId \in 0..MaxRows : RequestLogout(t, sessionId)
    \/ \E t \in Tokens : RequestAccount(t, FALSE)
    \/ AuthFindUser
    \/ AuthFindUserFails
    \/ Logout
    \/ LogoutFails
    \/ AfterLogout

SpecSession == InitAccount /\ [][NextSession]_vars

\* ------------------------------------------- several keys of one user
\* Every key belongs to user 1: keys 1 and 2 are then usable keys of the
\* same active user.
SharedOwner(k) == 1

InitShared ==
    /\ InitOwned(NoneCarried, TRUE, [k \in Keys |-> SharedOwner(k)])
    /\ gate = "validateApiKey"

\* Requests with a key of user 1 in the x-api-key header, and a request of
\* user 1 with a bearer token through authenticateToken; no store call
\* throws.
NextShared ==
    \/ Tick
    \/ \E r \in Reqs :
         \/ \E k \in {1, 2} :
              ArriveWith(r, [query |-> NoCred, header |-> k, bearer |-> NoCred])
         \/ Lookup(r)
         \/ Begin(r)
         \/ Update(r)
         \/ Select(r)
         \/ Commit(r)
    \/ RequestAccount([claim |-> "userId", user |-> SharedOwner(1),
                       key |-> "env", exp |-> today + TokenDays], FALSE)
    \/ AuthFindUser

SpecShared == InitShared /\ [][NextShared]_vars

\* ------------------------------------- validateApiKey, once allowed
\* Database.checkAndUpdateApiKeyUsage(id), which database.js does not define,
\* taken as the ledger contract describes it: one atomic conditional update;
\* the count restarts at 1 on the first call of a day and goes up by 1
\* otherwise; allowed iff the count after the call is within daily_limit;
\* remaining = max(daily_limit - count, 0).  true and false are written 1
\* and 0.
checkAndUpdateApiKeyUsage(row, currentDate) ==
    LET after == UpdatedRow(row, currentDate)
    IN  [row       |-> after,
         allowed   |-> IF after.requests_today <= after.daily_limit
                       THEN 1 ELSE 0,
         limit     |-> after.daily_limit,
         remaining |-> Max(after.daily_limit - after.requests_today, 0)]

\* f(a, b, ...) called where f(usageData) is declared: usageData is the
\* first argument, a primitive, and the others are dropped; destructuring a
\* primitive yields undefined for every field.
PositionalCall(args) == [primitive |-> args[1]]

\* req.apiKey = apiKeyData; req.remainingQuota = usageCheck.remaining;
\* req.dailyLimit = usageCheck.limit; ...; next()
PassOn(u) ==
    [status |-> 0, next |-> TRUE, limit |-> u.limit, remaining |-> u.remaining]

CheckAndConsume(r) ==
    /\ pc[r] = "ledger"
    /\ rowLock[apiKeyData[r].id] = 0
    /\ LET k == apiKeyData[r].id
           u == checkAndUpdateApiKeyUsage(api_keys[k], today)
       IN  /\ api_keys' = [api_keys EXCEPT ![k] = u.row]
           /\ usage' = [usage EXCEPT ![r] =
                  [allowed |-> u.allowed, limit |-> u.limit,
                   remaining |-> u.remaining]]
           /\ curDate' = [curDate EXCEPT ![r] = today]
           /\ rolledOver' = [rolledOver EXCEPT ![r] =
                                 api_keys[k].last_reset_date < today]
           /\ ledgerReturned' = [ledgerReturned EXCEPT ![r] = TRUE]
           /\ IF ~Allowed(u)
              THEN Respond(r, GateOnDenied(gate, u))
              ELSE /\ pc' = [pc EXCEPT ![r] = "allowed"]
                   /\ res' = res
    /\ UNCHANGED << today, users, rowLock, gate, otherVars, apiKey,
                    apiKeyData, txRow, storeErr, overlapped >>

\* The ledger call throws; the catch block of the gate answers.
CheckAndConsumeFails(r) ==
    /\ pc[r] = "ledger"
    /\ storeErr' = [storeErr EXCEPT ![r] = TRUE]
    /\ Respond(r, GateOnError(gate))
    /\ UNCHANGED << storeVars, apiKey, apiKeyData, curDate, txRow, usage,
                    ledgerReturned, rolledOver, overlapped >>

\* The arguments of the gate's logUsage call: user_id, api_key_id, endpoint,
\* status_code, response_time, ip_address.
\* await Database.logUsage(apiKeyData.user_id, apiKeyData.id,
\*     req.originalUrl, 200, null, req.ip); next()
\* inside the try block of the gate: when logUsage throws, the catch block
\* answers.
GateLogArgs(r) ==
    << apiKeyData[r].user_id, apiKeyData[r].id, r, 200, Undefined, 0 >>

GateLogUsage(r) ==
    /\ pc[r] = "allowed"
    /\ LET ins == InsertUsage(usage_logs, PositionalCall(GateLogArgs(r)))
       IN  /\ usage_logs' = ins.rows
           /\ storeErr' = [storeErr EXCEPT ![r] = ins.threw]
           /\ Respond(r, IF ins.threw THEN GateOnError(gate)
                         ELSE PassOn(usage[r]))
    /\ UNCHANGED << today, users, api_keys, rowLock, gate, carried, sessions,
                    password_reset_tokens, jwtSecretSet, acct, ops, apiKey,
                    apiKeyData, curDate, txRow, usage, ledgerReturned,
                    rolledOver, overlapped >>

InitServed == Init /\ gate = "validateApiKey"

NextServed ==
    \/ Tick
    \/ \E r \in Reqs :
         \/ Arrive(r)
         \/ Lookup(r)
         \/ LookupFails(r)
         \/ CheckAndConsume(r)
         \/ CheckAndConsumeFails(r)
         \/ GateLogUsage(r)

SpecServed == InitServed /\ [][NextServed]_vars

TypeOK ==
    /\ today \in FirstDay..MaxDay
    /\ gate \in Modes
    /\ \A r \in Reqs : pc[r] \in {"idle", "lookup", "ledger", "update",
                                  "select", "commit", "rollback", "allowed",
                                  "done"}

\* ----------------------------------------------------------------- claims
\* Ledger calls that returned to the gate for key k.
Calls(k) == {r \in Reqs : ledgerReturned[r] /\ apiKey[r] = k}

\* No request is under way.
AllComplete == \A r \in Reqs : pc[r] \in {"idle", "done"}

\* What a returned ledger call reports to its request: the allow decision
\* the gate acts on, the remaining quota the gate passes on (in the 429 body,
\* or as req.remainingQuota / req.usage.remaining), and the count after the
\* call's increment.
ReportedAllowed(r) == Allowed(usage[r])

ReportedRemaining(r) ==
    IF res[r].status = 429 THEN res[r].remaining
    ELSE Field(usage[r], "remaining")

EffectiveCount(r) == usage[r].requests_today

\* C1: N concurrent ledger calls against one fresh key with daily_limit L on
\* the same day: once all have completed, exactly min(N, L) were reported
\* allowed and the stored requests_today is min(N, L).
C1_MinAllowedAndStored ==
    \A k \in Keys :
        (today = FirstDay /\ AllComplete) =>
            LET N == Cardinality(Calls(k))
                L == api_keys[k].daily_limit
            IN  /\ Cardinality({r \in Calls(k) : ReportedAllowed(r)}) = Min(N, L)
                /\ api_keys[k].requests_today = Min(N, L)

\* The calls returned for key k all ran with today's date as CURRENT_DATE.
SameDay(k) == \A r \in Calls(k) : curDate[r] = today

\* C2: no lost updates.  While the ledger calls that have returned for a
\* key all ran on the current day, and their number N is within daily_limit,
\* the stored requests_today of the key (which began at 0 and is reset by
\* the first call of a day) equals N, however the calls' UPDATE / SELECT /
\* COMMIT steps interleave.
C2_NoLostUpdates ==
    \A k \in Keys :
        (SameDay(k) /\ Cardinality(Calls(k)) <= api_keys[k].daily_limit)
            => api_keys[k].requests_today = Cardinality(Calls(k))

\* Two calls whose transactions overlapped have both returned within the
\* limit, and the counter is 2.
C2_Witness ==
    \E r1, r2 \in Reqs :
        /\ r1 # r2 /\ {r1, r2} \subseteq Calls(1)
        /\ overlapped[r1] \/ overlapped[r2]
        /\ SameDay(1)
        /\ api_keys[1].daily_limit >= 2
        /\ api_keys[1].requests_today = 2

\* C3: two ledger calls for the same key that both ran on the current day
\* never return the same post-increment requests_today.
C3_DistinctPostIncrement ==
    \A r1, r2 \in Reqs :
        (/\ r1 # r2 /\ ledgerReturned[r1] /\ ledgerReturned[r2]
         /\ apiKey[r1] = apiKey[r2]
         /\ curDate[r1] = today /\ curDate[r2] = today)
            => EffectiveCount(r1) # EffectiveCount(r2)

\* Two calls whose transactions overlapped returned 1 and 2.
C3_Witness ==
    \E r1, r2 \in Reqs :
        /\ ledgerReturned[r1] /\ ledgerReturned[r2]
        /\ apiKey[r1] = apiKey[r2]
        /\ overlapped[r2]
        /\ curDate[r1] = today /\ curDate[r2] = today
        /\ EffectiveCount(r1) = 1 /\ EffectiveCount(r2) = 2

\* C4: a ledger call that finds last_reset_date before the current date
\* writes requests_today = 1 and last_reset_date = current date in one
\* update, and is reported allowed with remaining = L - 1.
C4_RolloverAllowed ==
    \A r \in Reqs :
        rolledOver[r] =>
            /\ pc[r] \in {"select", "commit"} =>
                  /\ txRow[r].requests_today = 1
                  /\ txRow[r].last_reset_date = curDate[r]
            /\ ledgerReturned[r] =>
                  /\ EffectiveCount(r) = 1
                  /\ ReportedAllowed(r)
                  /\ ReportedRemaining(r) = usage[r].daily_limit - 1

\* C5: the counter never exceeds daily_limit, and a call made on the same
\* day once the limit is reached is denied with remaining 0.
C5_DenialIdempotent ==
    /\ \A k \in Keys : api_keys[k].requests_today <= api_keys[k].daily_limit
    /\ \A r \in Reqs :
          (ledgerReturned[r] /\ ~rolledOver[r]
                /\ EffectiveCount(r) > usage[r].daily_limit)
            => (~ReportedAllowed(r) /\ ReportedRemaining(r) = 0)

\* C6: the allow decision the gate receives from a ledger call is true
\* exactly when the count after that call's increment is within daily_limit.
C6_AllowIffWithinLimit ==
    \A r \in Reqs :
        ledgerReturned[r] =>
            (ReportedAllowed(r) <=> EffectiveCount(r) <= usage[r].daily_limit)

\* C7: the remaining quota reported for a ledger call is
\* max(daily_limit - effective count, 0).
C7_RemainingIsClampedDifference ==
    \A r \in Reqs :
        ledgerReturned[r] =>
            ReportedRemaining(r)
                = Max(usage[r].daily_limit - EffectiveCount(r), 0)

\* The gates that require an API key.
Required == gate \in {"validateApiKey", "authenticateApiKey"}

\* C8: in the gates that require a key, a request one of whose store calls
\* (key lookup, or a statement of the ledger call) threw is answered 500 and
\* never passed on to the handler.
C8_StoreErrorIs500 ==
    \A r \in Reqs :
        (Required /\ storeErr[r]) =>
            /\ pc[r] # "allowed"
            /\ ~res[r].next
            /\ pc[r] = "done" => res[r].status = 500

\* The ledger call of a request whose key was found threw, and the request
\* was answered 500.
C8_Witness ==
    \E r \in Reqs :
        /\ Required /\ storeErr[r] /\ pc[r] = "done"
        /\ apiKeyData[r] # NoRow
        /\ res[r].status = 500

\* C9: a request the gate answers with a rejection ends at the gate: next()
\* is not called for it.
C9_RejectedStopsAtGate ==
    \A r \in Reqs :
        res[r].status \in {401, 403, 429, 500} =>
            (pc[r] = "done" /\ ~res[r].next)

\* One request was turned away for quota and another for its credential.
C9_Witness ==
    \E r1, r2 \in Reqs :
        /\ res[r1].status = 429 /\ pc[r1] = "done"
        /\ res[r2].status \in {401, 403} /\ pc[r2] = "done"

\* C10: a request with an active, unexpired key whose user is inactive is
\* answered 403 and not passed on.
C10_InactiveUserIs403 ==
    \A r \in Reqs :
        (/\ Required /\ pc[r] = "done" /\ ~storeErr[r]
         /\ apiKey[r] \in Keys
         /\ api_keys[apiKey[r]].is_active = 1
         /\ ~Expired(api_keys[apiKey[r]], today)
         /\ users[api_keys[apiKey[r]].user_id].is_active = 0)
            => (res[r].status = 403 /\ ~res[r].next)

\* optionalApiKey sets req.apiKey = keyData and req.usage = usage as soon as
\* the ledger call has returned, before it tests usage.allowed.
Attached(r) == gate = "optionalApiKey" /\ ledgerReturned[r]

\* A key the gate should accept: active, unexpired, of an active user.
ValidKey(k) ==
    /\ k \in Keys
    /\ api_keys[k].is_active = 1
    /\ ~Expired(api_keys[k], today)
    /\ users[api_keys[k].user_id].is_active = 1

C12_OptionalValidKeyMetered ==
    \A r \in Reqs :
        (/\ gate = "optionalApiKey" /\ pc[r] = "done"
         /\ ValidKey(apiKey[r]))
            => /\ ledgerReturned[r]
               /\ EffectiveCount(r) > usage[r].daily_limit
                    => (res[r].status = 429 /\ ~res[r].next)

\* The first credential present in the order query parameter, x-api-key
\* header, Authorization: Bearer.
FirstPresent(c) ==
    IF Truthy(c.query) THEN c.query
    ELSE IF Truthy(c.header) THEN c.header ELSE c.bearer

\* C13: whichever credentials a request carries, the gate resolves it with
\* the first one present in the order query parameter, x-api-key header,
\* Bearer; the other credentials have no part in the outcome.
C13_PrecedenceFixed ==
    \A r \in Reqs : pc[r] # "idle" => apiKey[r] = FirstPresent(carried)

\* The gate has passed the request on to its handler.
Succeeded(r) == pc[r] = "allowed" \/ res[r].next

\* C14: of the requests made one after another with one key to an endpoint
\* behind validateApiKey, those whose count is within daily_limit succeed,
\* the first one after a day rollover with remaining = daily_limit - 1, and
\* those beyond the limit are answered 429 with remaining 0.
C14_EndToEnd ==
    \A r \in Reqs :
        (gate = "validateApiKey" /\ ledgerReturned[r] /\ ~overlapped[r]) =>
            IF EffectiveCount(r) <= usage[r].daily_limit
            THEN /\ Succeeded(r)
                 /\ rolledOver[r] =>
                        ReportedRemaining(r) = usage[r].daily_limit - 1
            ELSE /\ res[r].status = 429
                 /\ res[r].remaining = 0

\* u has no row left in any table.
ZeroRows(db, u) ==
    /\ u \notin DOMAIN db.users
    /\ KeysOf(db, u) = {}
    /\ \A x \in db.sessions \cup db.password_reset_tokens \cup db.usage_logs :
           x.user_id # u

\* C17: a usage_logs row, once written, stays as written until the account
\* of its user is deleted; no other operation, deleting one API key
\* included, removes it.
C17_UsageLogsAppendOnly ==
    [][\A x \in usage_logs :
           x \in usage_logs' \/ x.user_id \notin DOMAIN users']_vars

\* A step of deleteUser or of the transaction of DELETE /auth/account.
DeletionStep ==
    acct.pc \in {"begin", "stmt", "commit", "rollback"} /\ acct' # acct

\* C18: a step of an account deletion for user u leaves every table as it
\* is, or it is the successful end of the deletion and no row of u is left in
\* sessions, password_reset_tokens, usage_logs, api_keys and users; a
\* deletion that fails at any statement changes no table.
C18_AllOrNothing ==
    [][DeletionStep =>
           \/ DB' = DB
           \/ /\ acct'.pc = "done" /\ ~acct'.failed
              /\ ZeroRows(DB', acct.user)]_vars

\* deleteUser failed after its usage_logs statement, and the user, a session
\* and a usage row of the user are all still there.
C18_Witness ==
    /\ acct.via = "deleteUser" /\ acct.pc = "done" /\ acct.failed
    /\ acct.step >= 4
    /\ acct.user \in DOMAIN users
    /\ \E x \in sessions : x.user_id = acct.user
    /\ \E x \in usage_logs : x.user_id = acct.user

\* C19: DELETE /auth/account, called with the confirmation text by an
\* authenticated existing user and met by no store failure, answers 200 and
\* leaves no row of the user in any table of the schema.
C19_RouteCommitsCascade ==
    (/\ acct.via = "account" /\ acct.pc = "done"
     /\ acct.next /\ acct.confirm /\ ~acct.fault)
        => /\ acct.status = 200
           /\ ZeroRows(DB, acct.user)

\* authenticateToken gets its answer from findUserById.
TokenAnswered ==
    /\ acct.pc = "findUser" /\ acct'.pc # "findUser" /\ ~acct'.fault
    /\ acct.token.claim = "id"

\* C20: with JWT_SECRET configured, a token that generateToken issued for a
\* user is accepted while it is unexpired and the users row of that user is
\* there and active, and rejected when that user is inactive.
C20_IssuedTokenAccepted ==
    [][TokenAnswered =>
           LET user == findUserById(acct.token.user)
           IN  /\ (user # NoUser /\ user.is_active = 1
                     /\ today <= acct.token.exp) => acct'.next
               /\ (user # NoUser /\ user.is_active = 0) => ~acct'.next]_vars

\* The ledger allowed request r.
LedgerAllowed(r) == ledgerReturned[r] /\ Allowed(usage[r])

\* The usage_logs rows written for request r.
RowsOf(r) == {x \in usage_logs : x.endpoint = r}

\* C15: a request with an API key that the ledger allowed has, once it is
\* answered, exactly one usage_logs row: not none, not two.
C15_ExactlyOneRow ==
    \A r \in Reqs :
        (pc[r] = "done" /\ LedgerAllowed(r)) => Cardinality(RowsOf(r)) = 1

\* logUsage threw for request r: after an allowed ledger call it is the
\* only store call left.
RecorderFailed(r) == LedgerAllowed(r) /\ storeErr[r]

\* C16: a request the ledger allowed is passed on to its handler and gets
\* the handler's answer also when logUsage throws.
C16_RecorderFailureHarmless ==
    \A r \in Reqs :
        (pc[r] = "done" /\ RecorderFailed(r)) =>
            (res[r].next /\ res[r].status = 0)

\* authenticateToken gets its answer from findUserById, for any token.
TokenDecided ==
    acct.pc = "findUser" /\ acct'.pc # "findUser" /\ ~acct'.fault

\* C21: a verified token is accepted exactly when the users row named by its
\* userId is there and active, whatever the sessions table holds; a token
\* is still accepted after a logout with it has deleted its session row.
C21_SessionsAdvisory ==
    [][TokenDecided =>
           LET id == DecodedUserId(acct.token)
           IN  acct'.next <=> (id \in DOMAIN users /\ users[id].is_active = 1)]_vars

\* A logout with the token deleted a session row, no session of the user is
\* left, and the next request with the same token is accepted.
C21_Witness ==
    /\ acct.via = "account" /\ acct.next
    /\ acct.prior = acct.token /\ acct.revoked
    /\ \A x \in sessions : x.user_id # acct.token.user

\* C22: nothing refunds a unit of quota: while last_reset_date of a key
\* stays the same, no step lowers its requests_today, whatever happens to
\* the request after its ledger call.
C22_NoRefund ==
    [][\A k \in Keys :
           api_keys'[k].last_reset_date = api_keys[k].last_reset_date
               => api_keys'[k].requests_today >= api_keys[k].requests_today]_vars

\* A request was answered 429 after its ledger call, and the unit it
\* consumed is still counted.
C22_Witness ==
    \E r \in Reqs :
        /\ pc[r] = "done" /\ ledgerReturned[r] /\ res[r].status = 429
        /\ curDate[r] = today
        /\ api_keys[apiKey[r]].last_reset_date = today
        /\ api_keys[apiKey[r]].requests_today >= EffectiveCount(r)

\* A key the gates are to turn away: unknown, deactivated, or expired since
\* before the first day.
InvalidKey(k) ==
    \/ k = UnknownKey
    \/ /\ k \in Keys
       /\ \/ api_keys[k].is_active = 0
          \/ Expired(api_keys[k], FirstDay)

Quiet(k) == \A r \in Reqs : apiKey[r] = k => pc[r] \in {"idle", "done"}

\* C28: when the calls made for a key on a new day, however they overlap,
\* have all completed, last_reset_date is that day, requests_today is their
\* number, and exactly one of them applied the rollover.
C28_RolloverOnce ==
    \A k \in Keys :
        (/\ today > FirstDay /\ Quiet(k) /\ SameDay(k) /\ Calls(k) # {})
            => /\ api_keys[k].last_reset_date = today
               /\ api_keys[k].requests_today = Cardinality(Calls(k))
               /\ Cardinality({r \in Calls(k) : rolledOver[r]}) = 1

\* Two calls overlapped as the first ones of a new day; the counter is 2.
C28_Witness ==
    /\ today > FirstDay /\ Quiet(1) /\ SameDay(1)
    /\ Cardinality(Calls(1)) = 2
    /\ \E r \in Calls(1) : overlapped[r]
    /\ api_keys[1].requests_today = 2

\* The ROLLBACK of request r's ledger call.
RollsBack(r) == pc[r] = "rollback" /\ pc'[r] # "rollback"

Commits(r, k) ==
    pc[r] = "commit" /\ pc'[r] # "commit" /\ apiKeyData[r].id = k

\* C24: a step changes the row of key k only as the commit of a ledger call
\* for k, and then only its requests_today and last_reset_date; the rows of
\* all other keys, those of the same user included, stay as they are, and no
\* step of authenticateToken changes any row.
C24_QuotaPerKey ==
    [][\A k \in Keys :
           api_keys'[k] # api_keys[k] =>
               /\ \E r \in Reqs : Commits(r, k)
               /\ api_keys'[k] =
                    [api_keys[k] EXCEPT
                        !.requests_today = api_keys'[k].requests_today,
                        !.last_reset_date = api_keys'[k].last_reset_date]]_vars

\* Keys 1 and 2 belong to one user; a call for key 1 has been counted, key 2
\* is untouched, and a bearer token of that user has been accepted.
C24_Witness ==
    /\ api_keys[1].user_id = api_keys[2].user_id
    /\ api_keys[1].requests_today > 0
    /\ api_keys[2].requests_today = 0
    /\ acct.next /\ acct.token.user = api_keys[1].user_id

C27_RemainingConsistent ==
    \A r \in Reqs :
        (pc[r] = "done" /\ LedgerAllowed(r)) =>
            /\ res[r].next
            /\ res[r].remaining = usage[r].remaining
            /\ res[r].remaining >= 0

\* reset_date: apiKeyData.last_reset_date, in the body of the 429 answer;
\* req.apiKey.last_reset_date in the handlers and in X-RateLimit-Reset.
ReportedResetDate(r) == apiKeyData[r].last_reset_date

\* C29: the reset date reported to a request whose own ledger call rolled
\* the day over is the last_reset_date that call stored.
C29_ReportedKeyState ==
    \A r \in Reqs :
        (/\ gate = "validateApiKey" /\ pc[r] = "done"
         /\ ledgerReturned[r] /\ rolledOver[r])
            => ReportedResetDate(r) = curDate[r]

====
